---- MODULE Spec2Model ----
(***************************************************************************)
(* InVesta: portfolio aggregation (finance_logic.py) and the Nasdaq ticker *)
(* directory with its daily synchronisation and search (ticker_sync.py,    *)
(* ticker_data.py).                                                        *)
(*                                                                         *)
(* Numbers.  Shares, prices and money are REAL columns / Python floats.    *)
(* They are modelled as exact rationals <<n, d>> in lowest terms (d > 0),  *)
(* so truncation by int() and division are what the code computes, up to   *)
(* binary floating point rounding, which is not modelled.                  *)
(*                                                                         *)
(* Text.  A string is a sequence of one-character strings, so prefix,      *)
(* substring, strip(), upper() and split('|') are computed, not assumed.   *)
(***************************************************************************)
EXTENDS Integers, Sequences, FiniteSets, TLC

VARIABLES
    transactions_df,  \* app.main: the cash transactions loaded from the ledger
    investments_df,   \* app.main: the trades loaded from the ledger
    ticker_prices,    \* app.main: ticker -> price, as returned by batch_fetch_prices
    portfolio_df,     \* app.main: result of PortfolioCalculator.aggregate_portfolio
    metrics,          \* app.main: result of PortfolioCalculator.compute_metrics
    allocation_df,    \* app.main: result of PortfolioCalculator.get_portfolio_allocation
    aggregated,       \* TRUE once app.main has computed portfolio_df
    analysis_df,      \* check_setup: result of PortfolioAnalyzer.aggregate_portfolio
    tickers,          \* assets.db table tickers: rows keyed by symbol
    tickers_search,   \* assets.db search index tickers_search: its rows
    index_readable,   \* TRUE while queries on tickers_search succeed
    sync_log,         \* assets.db table sync_log: rows keyed by key
    now,              \* the wall clock, in ticks
    ret,              \* the last call of the directory and what it returned
    last_sync         \* history: when sync_if_needed was last called, its outcome,
                      \* the outcome of the call before it, and whether the two
                      \* calls were served the same files

pvars == <<transactions_df, investments_df, ticker_prices, portfolio_df, metrics,
           allocation_df, aggregated, analysis_df>>
dvars == <<tickers, tickers_search, index_readable, sync_log, now, ret, last_sync>>
vars == <<transactions_df, investments_df, ticker_prices, portfolio_df, metrics,
          allocation_df, aggregated, analysis_df,
          tickers, tickers_search, index_readable, sync_log, now, ret, last_sync>>

(***************************************************************************)
(* Bounds                                                                  *)
(***************************************************************************)
MaxTrades == 3        \* trades in the ledger
MaxPrice == 2         \* prices are 1..MaxPrice
MaxCashRows == 2      \* cash transactions in the ledger
TicksPerDay == 2     \* clock ticks in a calendar day
MaxDays == 2         \* days the clock runs through
MaxLimit == 2        \* search limits are 0..MaxLimit
MaxRows == 2         \* data rows in a listing file handed to the parser

(***************************************************************************)
(* Exact rational arithmetic                                               *)
(***************************************************************************)
Abs(x) == IF x < 0 THEN -x ELSE x

RECURSIVE GCD(_, _)
GCD(a, b) == IF b = 0 THEN a ELSE GCD(b, a % b)

\* n/d in lowest terms with a positive denominator (d # 0)
R(n, d) ==
    LET s == IF d < 0 THEN -1 ELSE 1
        g == GCD(Abs(n), Abs(d))
    IN  <<(s * n) \div g, (s * d) \div g>>

Zero == <<0, 1>>
RInt(k) == <<k, 1>>
RAdd(a, b) == R(a[1] * b[2] + b[1] * a[2], a[2] * b[2])
RSub(a, b) == R(a[1] * b[2] - b[1] * a[2], a[2] * b[2])
RMul(a, b) == R(a[1] * b[1], a[2] * b[2])
RDiv(a, b) == R(a[1] * b[2], a[2] * b[1])
RLt(a, b) == a[1] * b[2] < b[1] * a[2]
RGt(a, b) == RLt(b, a)

\* Python round(x, digits): to the nearest multiple of 10^-digits, a tie to
\* the even one
round(x, digits) ==
    LET scaled == x[1] * 10^digits
        floor == scaled \div x[2]
        twice_rest == 2 * (scaled - floor * x[2])
        nearest == IF twice_rest < x[2] THEN floor
                   ELSE IF twice_rest > x[2] THEN floor + 1
                   ELSE IF floor % 2 = 0 THEN floor ELSE floor + 1
    IN  R(nearest, 10^digits)

\* Python int(x) on a float: truncation toward zero
int(x) == IF x[1] >= 0 THEN x[1] \div x[2] ELSE -((-x[1]) \div x[2])

(***************************************************************************)
(* config.py                                                               *)
(***************************************************************************)
TRADE_TYPE_BUY == "Buy"
TRADE_TYPE_SELL == "Sell"
TRADE_TYPES == {TRADE_TYPE_BUY, TRADE_TYPE_SELL}

TRANSACTION_TYPE_INCOME == "Income"
TRANSACTION_TYPE_EXPENSE == "Expense"
TRANSACTION_TYPES == {TRANSACTION_TYPE_INCOME, TRANSACTION_TYPE_EXPENSE}

PRICE_PRECISION == 2
PERCENTAGE_PRECISION == 2

STATUS_CLOSED == "Closed"
STATUS_OPEN == "Open"

(***************************************************************************)
(* Inputs of the aggregation                                               *)
(***************************************************************************)
Tickers == {"AAPL", "MSFT"}
\* shares is a REAL column: a trade moves half a share or a whole share
ShareQty == {R(1, 2), RInt(1)}
PriceQty == {RInt(p) : p \in 1..MaxPrice}

\* a row of the investments table (database.py), the columns the aggregation reads
Trade == [ticker : Tickers, trade_type : TRADE_TYPES, shares : ShareQty, price : PriceQty]

\* the place of a row in the order the ledgers below are written in
RowOrder(row) ==
    LET t == IF row.ticker = "AAPL" THEN 0 ELSE 1
        b == IF row.trade_type = TRADE_TYPE_BUY THEN 0 ELSE 1
        h == int(RAdd(row.shares, row.shares))
    IN  ((t * 2 + b) * 3 + h) * (MaxPrice + 1) + row.price[1]

\* the ledgers: the aggregation only sums the rows of a ticker, and exact sums
\* do not depend on the order of the rows, so each collection of trades is
\* drawn in one order
Ledgers ==
    {df \in UNION {[1..n -> Trade] : n \in 0..MaxTrades} :
        \A i \in 1..(Len(df) - 1) : RowOrder(df[i]) <= RowOrder(df[i + 1])}

\* a row of the transactions table (database.py), the columns the metrics read
Transaction == [type : TRANSACTION_TYPES, amount : PriceQty]

CashLogs == UNION {[1..n -> Transaction] : n \in 0..MaxCashRows}

\* a price map is a function from the tickers that have a price
PriceMaps == UNION {[S -> PriceQty] : S \in SUBSET Tickers}

(***************************************************************************)
(* ticker_data.batch_fetch_prices                                          *)
(***************************************************************************)
\* what the last Close of a ticker is in the frame yf.download returned: a
\* price, NaN, no column for the ticker, or a value whose extraction raises
\* one of the errors the loop catches
NoQuote(kind) == [kind |-> kind, value |-> Zero]
Quotes ==
    {[kind |-> "price", value |-> p] : p \in PriceQty}
        \cup {NoQuote(kind) : kind \in {"nan", "absent", "error"}}

\* yf.download raised, or returned a frame
DownloadRaised == [raised |-> TRUE, close |-> [t \in Tickers |-> NoQuote("absent")]]
Responses ==
    {DownloadRaised} \cup {[raised |-> FALSE, close |-> close] : close \in [Tickers -> Quotes]}

\* the lists of tickers asked for: investments_df['ticker'].unique().tolist()
Requests ==
    {ticker_list \in UNION {[1..n -> Tickers] : n \in 0..Cardinality(Tickers)} :
        \A i, j \in DOMAIN ticker_list : i # j => ticker_list[i] # ticker_list[j]}

batch_fetch_prices_all_or_nothing(ticker_list, response) ==
    IF ticker_list = <<>> \/ response.raised
          \/ \E i \in DOMAIN ticker_list : response.close[ticker_list[i]].kind # "price"
    THEN <<>>
    ELSE [t \in {ticker_list[i] : i \in DOMAIN ticker_list} |-> response.close[t].value]

\* batch_fetch_prices(tickers) with the answer of yf.download: the map of the
\* tickers whose last Close is a price (<<>> is the empty map)
batch_fetch_prices(ticker_list, response) ==
    IF ticker_list = <<>> THEN <<>>
    ELSE IF response.raised THEN <<>>
    ELSE IF Len(ticker_list) = 1
         THEN IF response.close[ticker_list[1]].kind = "price"
              THEN [t \in {ticker_list[1]} |-> response.close[t].value]
              ELSE <<>>
    ELSE [t \in {ticker_list[i] : i \in {j \in DOMAIN ticker_list :
                                          response.close[ticker_list[j]].kind = "price"}}
             |-> response.close[t].value]

(***************************************************************************)
(* PortfolioCalculator.aggregate_portfolio                                 *)
(***************************************************************************)
RECURSIVE SumShares(_)
SumShares(rows) ==
    IF rows = <<>> THEN Zero
    ELSE RAdd(Head(rows).shares, SumShares(Tail(rows)))

RECURSIVE SumValue(_)
SumValue(rows) ==
    IF rows = <<>> THEN Zero
    ELSE RAdd(RMul(Head(rows).shares, Head(rows).price), SumValue(Tail(rows)))

\* investments_df.groupby("ticker"): the rows of one ticker
GroupOf(df, ticker) == SelectSeq(df, LAMBDA r : r.ticker = ticker)
GroupKeys(df) == {df[i].ticker : i \in 1..Len(df)}

Buys(group) == SelectSeq(group, LAMBDA r : r.trade_type = TRADE_TYPE_BUY)
Sells(group) == SelectSeq(group, LAMBDA r : r.trade_type = TRADE_TYPE_SELL)

AvgCostNetted(group) ==
    LET net == RSub(SumShares(Buys(group)), SumShares(Sells(group)))
    IN  IF RGt(net, Zero)
        THEN RDiv(RSub(SumValue(Buys(group)), SumValue(Sells(group))), net)
        ELSE Zero

\* avg_cost = (buy_value / buy_shares) if buy_shares > 0 else 0
AvgCost(group) ==
    IF RGt(SumShares(Buys(group)), Zero)
    THEN RDiv(SumValue(Buys(group)), SumShares(Buys(group)))
    ELSE Zero

CurrentPriceNoFallback(prices, ticker, avg_cost) ==
    IF ticker \in DOMAIN prices THEN prices[ticker] ELSE Zero

\* current_price = ticker_prices.get(ticker, avg_cost)
CurrentPrice(prices, ticker, avg_cost) ==
    IF ticker \in DOMAIN prices THEN prices[ticker] ELSE avg_cost

RealizedPnlPerShare(sell_value, sell_shares, avg_cost) ==
    IF RGt(sell_shares, Zero)
    THEN RSub(sell_value, avg_cost)
    ELSE Zero

\* realized_pnl = sell_value - (sell_shares * avg_cost) if sell_shares > 0 else 0
RealizedPnl(sell_value, sell_shares, avg_cost) ==
    IF RGt(sell_shares, Zero)
    THEN RSub(sell_value, RMul(sell_shares, avg_cost))
    ELSE Zero

ClosedRealizedPnlSwapped(sell_value, buy_value) == RSub(buy_value, sell_value)

\* closed branch: realized_pnl = sell_value - buy_value
ClosedRealizedPnl(sell_value, buy_value) == RSub(sell_value, buy_value)

StatusOfNonPositive(net_shares) ==
    IF ~RGt(net_shares, Zero) THEN STATUS_CLOSED ELSE STATUS_OPEN

\* "Closed" if net_shares == 0 else "Open"
StatusOf(net_shares) ==
    IF net_shares = Zero THEN STATUS_CLOSED ELSE STATUS_OPEN

\* one iteration of "for ticker, group in grouped"
PositionRow(ticker, group, prices) ==
    LET buy_shares == SumShares(Buys(group))
        buy_value == SumValue(Buys(group))
        sell_shares == SumShares(Sells(group))
        sell_value == SumValue(Sells(group))
        net_shares == RSub(buy_shares, sell_shares)
        avg_cost == AvgCost(group)
        current_price == CurrentPrice(prices, ticker, avg_cost)
        closed == net_shares = Zero /\ RGt(buy_shares, Zero)
        realized_pnl ==
            IF closed THEN ClosedRealizedPnl(sell_value, buy_value)
            ELSE RealizedPnl(sell_value, sell_shares, avg_cost)
        current_value == IF closed THEN Zero ELSE RMul(net_shares, current_price)
        unrealized_pnl ==
            IF closed THEN Zero
            ELSE RSub(current_value, RMul(net_shares, avg_cost))
        unrealized_pct ==
            IF closed THEN Zero
            ELSE IF RGt(RMul(net_shares, avg_cost), Zero)
                 THEN RMul(RDiv(unrealized_pnl, RMul(net_shares, avg_cost)), RInt(100))
                 ELSE Zero
    IN  [Ticker |-> ticker,
         Total_Shares |-> int(buy_shares),
         Sold_Shares |-> int(sell_shares),
         Net_Shares |-> int(net_shares),
         Avg_Cost |-> avg_cost,
         Current_Price |-> current_price,
         Current_Value |-> current_value,
         Unrealized_PnL |-> unrealized_pnl,
         Unrealized_PnL_pct |-> unrealized_pct,
         Realized_PnL |-> realized_pnl,
         Total_PnL |-> RAdd(unrealized_pnl, realized_pnl),
         Status |-> StatusOf(net_shares)]

\* the summary list before sorting, as a set (one row per ticker)
SummaryRows(df, prices) ==
    {PositionRow(t, GroupOf(df, t), prices) : t \in GroupKeys(df)}

\* df.sort_values("Current Value", ascending=False): every order of the rows
\* that is descending by Current Value (rows of equal value in any order)
SortedByValueDesc(rows) ==
    {s \in [1..Cardinality(rows) -> rows] :
        /\ \A i, j \in DOMAIN s : i # j => s[i] # s[j]
        /\ \A i, j \in DOMAIN s : i < j => ~RLt(s[i].Current_Value, s[j].Current_Value)}

\* the set of data frames aggregate_portfolio may return
aggregate_portfolio(df, prices) ==
    IF df = <<>> THEN {<<>>}
    ELSE SortedByValueDesc(SummaryRows(df, prices))

(***************************************************************************)
(* PortfolioAnalyzer.aggregate_portfolio (portfolio.py)                    *)
(***************************************************************************)
\* groupby("ticker") yields the groups in the order of their keys
TickerOrder == <<"AAPL", "MSFT">>

\* invested = bought value - sold value; avg_cost = invested / net_shares
AnalyzerAvgCost(group, net_shares) ==
    IF net_shares # Zero
    THEN RDiv(RSub(SumValue(Buys(group)), SumValue(Sells(group))), net_shares)
    ELSE Zero

\* one iteration of "for ticker, group in grouped": <<>> for a skipped group;
\* latest: what fetch_latest_price returned, a price or nothing
AnalyzerRow(ticker, group, latest) ==
    LET net_shares == RSub(SumShares(Buys(group)), SumShares(Sells(group)))
        avg_cost == AnalyzerAvgCost(group, net_shares)
        latest_price == IF ticker \in DOMAIN latest THEN latest[ticker] ELSE avg_cost
        current_value == RMul(net_shares, latest_price)
        unrealized_pnl == RSub(current_value, RMul(net_shares, avg_cost))
        unrealized_pct ==
            IF avg_cost # Zero
            THEN RMul(RDiv(unrealized_pnl, RMul(net_shares, avg_cost)), RInt(100))
            ELSE Zero
    IN  IF ~RGt(net_shares, Zero) THEN <<>>
        ELSE <<[Ticker |-> ticker,
                Total_Shares |-> net_shares,
                Avg_Cost |-> round(avg_cost, PRICE_PRECISION),
                Current_Price |-> round(latest_price, PRICE_PRECISION),
                Current_Value |-> round(current_value, PRICE_PRECISION),
                Unrealized_PnL |-> round(unrealized_pnl, PRICE_PRECISION),
                Unrealized_PnL_pct |-> round(unrealized_pct, PERCENTAGE_PRECISION)]>>

RECURSIVE AnalyzerRows(_, _, _)
AnalyzerRows(keys, df, latest) ==
    IF keys = <<>> THEN <<>>
    ELSE (IF Head(keys) \in GroupKeys(df)
          THEN AnalyzerRow(Head(keys), GroupOf(df, Head(keys)), latest)
          ELSE <<>>) \o AnalyzerRows(Tail(keys), df, latest)

\* PortfolioAnalyzer.aggregate_portfolio
analyzer_aggregate_portfolio(df, latest) == AnalyzerRows(TickerOrder, df, latest)

(***************************************************************************)
(* PortfolioCalculator.compute_metrics                                     *)
(***************************************************************************)
\* Series.sum()
RECURSIVE SeriesSum(_)
SeriesSum(series) ==
    IF series = <<>> THEN Zero ELSE RAdd(Head(series), SeriesSum(Tail(series)))

\* cash_balance: the sum of the amount column
CashBalance(transactions) ==
    SeriesSum([i \in DOMAIN transactions |-> transactions[i].amount])

CostBasisNetted(investments) ==
    RSub(SumValue(Buys(investments)), SumValue(Sells(investments)))

\* cost_basis: shares * price summed over the Buy rows
CostBasis(investments) == SumValue(Buys(investments))

compute_metrics(transactions, investments, portfolio) ==
    LET total_assets ==
            SeriesSum([i \in DOMAIN portfolio |-> portfolio[i].Current_Value])
        cash_balance == CashBalance(transactions)
        total_unrealized_pnl ==
            SeriesSum([i \in DOMAIN portfolio |-> portfolio[i].Unrealized_PnL])
        total_realized_pnl ==
            SeriesSum([i \in DOMAIN portfolio |-> portfolio[i].Realized_PnL])
        total_pnl == RAdd(total_unrealized_pnl, total_realized_pnl)
        cost_basis == CostBasis(investments)
    IN  [total_assets |-> total_assets,
         cash_balance |-> cash_balance,
         cost_basis |-> cost_basis,
         total_unrealized_pnl |-> total_unrealized_pnl,
         total_realized_pnl |-> total_realized_pnl,
         total_pnl |-> total_pnl,
         return_pct |-> IF RGt(cost_basis, Zero)
                        THEN RMul(RDiv(total_pnl, cost_basis), RInt(100))
                        ELSE Zero,
         portfolio_value |-> RAdd(total_assets, cash_balance)]

(***************************************************************************)
(* PortfolioCalculator.get_portfolio_allocation                            *)
(***************************************************************************)
\* allocation.sort_values("Value", ascending=False): every order of the rows
\* that is descending by Value
SortedByValue(rows) ==
    {s \in [1..Cardinality(rows) -> rows] :
        /\ \A i, j \in DOMAIN s : i # j => s[i] # s[j]
        /\ \A i, j \in DOMAIN s : i < j => ~RLt(s[i].Value, s[j].Value)}

\* the set of data frames get_portfolio_allocation may return
get_portfolio_allocation(portfolio) ==
    LET open_positions == {i \in DOMAIN portfolio : portfolio[i].Net_Shares > 0}
        allocation == {[Ticker |-> portfolio[i].Ticker,
                        Value |-> portfolio[i].Current_Value] : i \in open_positions}
    IN  SortedByValue({row \in allocation : RGt(row.Value, Zero)})

(***************************************************************************)
(* Text: strings as sequences of characters                                *)
(***************************************************************************)
LowerCase == <<"a", "b", "c", "d", "e", "f", "g", "h", "i", "j", "k", "l", "m", "n", "o", "p", "q", "r", "s", "t", "u", "v", "w", "x", "y", "z">>
UpperCase == <<"A", "B", "C", "D", "E", "F", "G", "H", "I", "J", "K", "L", "M", "N", "O", "P", "Q", "R", "S", "T", "U", "V", "W", "X", "Y", "Z">>

\* the characters of the model in ASCII order (the order of sorted() and of
\* SQLite's BINARY collation)
AsciiOrder ==
    <<"\n", "\r", " ", "%", "(", ")", ".", ":", "0", "1">> \o UpperCase \o <<"_">>
        \o LowerCase \o <<"|">>

Ord(c) == CHOOSE i \in DOMAIN AsciiOrder : AsciiOrder[i] = c

RECURSIVE StrLt(_, _)
StrLt(a, b) ==
    IF b = <<>> THEN FALSE
    ELSE IF a = <<>> THEN TRUE
    ELSE IF Head(a) = Head(b) THEN StrLt(Tail(a), Tail(b))
    ELSE Ord(Head(a)) < Ord(Head(b))

UpperChar(c) ==
    IF \E i \in DOMAIN LowerCase : LowerCase[i] = c
    THEN UpperCase[CHOOSE i \in DOMAIN LowerCase : LowerCase[i] = c]
    ELSE c

\* str.upper()
upper(s) == [i \in DOMAIN s |-> UpperChar(s[i])]

IsSpace(c) == c \in {" ", "\n", "\r"}

RECURSIVE LStrip(_)
LStrip(s) == IF s # <<>> /\ IsSpace(Head(s)) THEN LStrip(Tail(s)) ELSE s

RECURSIVE RStrip(_)
RStrip(s) ==
    IF s # <<>> /\ IsSpace(s[Len(s)]) THEN RStrip(SubSeq(s, 1, Len(s) - 1)) ELSE s

\* str.strip()
strip(s) == RStrip(LStrip(s))

\* str.startswith(p)
startswith(s, p) == Len(p) <= Len(s) /\ SubSeq(s, 1, Len(p)) = p

\* p in s
Contains(s, p) ==
    \E i \in 0..(Len(s) - Len(p)) : SubSeq(s, i + 1, i + Len(p)) = p

\* index of the first occurrence of character c in s, 0 if none
IndexOf(s, c) ==
    LET hits == {i \in DOMAIN s : s[i] = c}
    IN  IF hits = {} THEN 0 ELSE CHOOSE i \in hits : \A j \in hits : i <= j

\* the place of the first occurrence of p in s, 0 if none
Find(s, p) ==
    LET hits == {i \in 1..(Len(s) - Len(p) + 1) : SubSeq(s, i, i + Len(p) - 1) = p}
    IN  IF hits = {} THEN 0 ELSE CHOOSE i \in hits : \A j \in hits : i <= j

\* s.split(sep)[0]
SplitHead(s, sep) == IF Find(s, sep) = 0 THEN s ELSE SubSeq(s, 1, Find(s, sep) - 1)

\* str.split(c)
RECURSIVE split(_, _)
split(s, c) ==
    LET i == IndexOf(s, c)
    IN  IF i = 0 THEN <<s>>
        ELSE <<SubSeq(s, 1, i - 1)>> \o split(SubSeq(s, i + 1, Len(s)), c)

\* c.join(parts)
RECURSIVE Join(_, _)
Join(parts, c) ==
    IF parts = <<>> THEN <<>>
    ELSE IF Len(parts) = 1 THEN parts[1]
    ELSE parts[1] \o <<c>> \o Join(Tail(parts), c)

\* s[:n] for n >= 0
Take(s, n) == SubSeq(s, 1, IF n < Len(s) THEN n ELSE Len(s))

\* SQLite "s LIKE pattern": % matches any run of characters, _ any single
\* character, letters compare case-insensitively
RECURSIVE Like(_, _)
Like(s, pattern) ==
    IF pattern = <<>> THEN s = <<>>
    ELSE IF Head(pattern) = "%"
         THEN Like(s, Tail(pattern)) \/ (s # <<>> /\ Like(Tail(s), pattern))
    ELSE /\ s # <<>>
         /\ Head(pattern) = "_" \/ UpperChar(Head(pattern)) = UpperChar(Head(s))
         /\ Like(Tail(s), Tail(pattern))

\* sorted(list) of strings: the element at place i is the one with i - 1
\* elements before it (equal elements keep their order)
sorted(list) ==
    LET place(k) ==
            1 + Cardinality({j \in DOMAIN list :
                                \/ StrLt(list[j], list[k])
                                \/ list[j] = list[k] /\ j < k})
    IN  [i \in DOMAIN list |-> list[CHOOSE k \in DOMAIN list : place(k) = i]]

(***************************************************************************)
(* ticker_sync.py: the exchange listing feed                               *)
(***************************************************************************)
NASDAQ_LISTED_FILE == "nasdaqlisted.txt"
OTHERLISTED_FILE == "otherlisted.txt"

\* nasdaqlisted.txt as served on one day: ends with a newline
NasdaqFileA ==
    Join(<<<<"S", "y", "m", "b", "o", "l", "|", "N", "a", "m", "e", "|", "C", "|", "T", "|", "E">>,
           <<"A", "P", "|", "A", "p", "e", "x", " ", "C", "o", "|", "Q", "|", "N", "|", "Y">>,
           <<"A", "A", "A", "|", "a", "p", " ", "f", "u", "n", "d", "|", "Q", "|", "N", "|", "N">>,
           <<"F", "i", "l", "e", " ", "T", "i", "m", "e", ":", " ", "0">>,
           <<>>>>, "\n")

\* nasdaqlisted.txt on another day: AP renamed, a row without a symbol, a
\* test issue, a short row, no newline at the end
NasdaqFileB ==
    Join(<<<<"S", "y", "m", "b", "o", "l", "|", "N", "a", "m", "e", "|", "C", "|", "T", "|", "E">>,
           <<"A", "P", "|", "A", "p", "e", "x", " ", "C", "o", "r", "p", "|", "Q", "|", "N", "|", "N">>,
           <<"|", "N", "o", " ", "S", "y", "m", "b", "o", "l", "|", "Q", "|", "N", "|", "N">>,
           <<"Z", "Z", "T", "|", "T", "e", "s", "t", " ", "I", "s", "s", "u", "e", " ", "Z", "|", "Q", "|", "Y", "|", "N">>,
           <<"B", "A", "D", "|", "r", "o", "w">>,
           <<"F", "i", "l", "e", " ", "T", "i", "m", "e", ":", " ", "1">>>>, "\n")

\* otherlisted.txt as served on one day
OtherFileA ==
    Join(<<<<"A", "C", "T", "|", "N", "a", "m", "e", "|", "X", "|", "C", "Q", "S", "|", "E", "|", "L">>,
           <<"Z", "A", "P", "|", "Z", "a", "p", "a", "t", "a", "|", "N", "|", "Z", "A", "P", "|", "Y", "|", "Y">>,
           <<"A", "P", "T", "|", "A", "l", "p", "h", "a", "|", "N", "|", "A", "P", "T", "|", "Y", "|", "N">>,
           <<"F", "i", "l", "e", " ", "T", "i", "m", "e", ":", " ", "0">>,
           <<>>>>, "\n")

\* otherlisted.txt on another day: lists AP, which nasdaqlisted.txt lists too
OtherFileB ==
    Join(<<<<"A", "C", "T", "|", "N", "a", "m", "e", "|", "X", "|", "C", "Q", "S", "|", "E", "|", "L">>,
           <<"A", "P", "|", "O", "t", "h", "e", "r", " ", "A", "p", "|", "N", "|", "A", "P", "|", "N", "|", "Y">>,
           <<"F", "i", "l", "e", " ", "T", "i", "m", "e", ":", " ", "1">>,
           <<>>>>, "\n")

\* a listing served with its header and summary line and no data row
HeaderOnlyFile ==
    Join(<<<<"S", "y", "m", "b", "o", "l", "|", "N", "a", "m", "e">>,
           <<"F", "i", "l", "e", " ", "T", "i", "m", "e", ":", " ", "2">>,
           <<>>>>, "\n")

\* the lines a listing file is made of, each data row as its fields: a row
\* with Y in column 4, one with y in column 5, a test issue, a row of two
\* fields, a row of three fields, a blank line
HeaderLine == <<"S", "y", "m", "b", "o", "l", "|", "N", "a", "m", "e", "|", "C", "|", "T", "|", "E">>
SummaryLine == <<"F", "i", "l", "e", " ", "T", "i", "m", "e", ":", " ", "0", "|", "|", "|", "|", "|">>
FeedRows ==
    {<<<<"A", "P">>, <<"A", "p", "e", "x">>, <<"Q">>, <<"N">>, <<"Y">>, <<"N">>>>,
     <<<<"Z", "A", "P">>, <<" ", "Z", "a", "p">>, <<"N">>, <<"Z">>, <<"n">>, <<"y", "\r">>>>,
     <<<<"Z", "Z", "T">>, <<"T", "e", "s", "t", " ", "I", "s", "s", "u", "e", " ", "Z">>, <<"Q">>, <<"Y">>, <<"N">>>>,
     <<<<"B", "A", "D">>, <<"r", "o", "w">>>>,
     <<<<"A", "B">>, <<"x">>, <<"y">>>>,
     <<<<>>>>}

\* the listings of up to MaxRows data rows
Listings == UNION {[1..n -> FeedRows] : n \in 0..MaxRows}

\* the text of a listing: header, rows, summary line, with or without a
\* newline at the end
ListingText(rows, newline) ==
    Join(<<HeaderLine>> \o [i \in DOMAIN rows |-> Join(rows[i], "|")] \o <<SummaryLine>>
            \o (IF newline THEN <<<<>>>> ELSE <<>>), "\n")

\* what _fetch_nasdaq_file can return: None (ok = FALSE) or the decoded file
FetchNone == [ok |-> FALSE, content |-> <<>>]
Fetched(content) == [ok |-> TRUE, content |-> content]
FetchOutcomes(filename) ==
    IF filename = NASDAQ_LISTED_FILE
    THEN {FetchNone, Fetched(<<>>), Fetched(HeaderOnlyFile), Fetched(NasdaqFileA),
          Fetched(NasdaqFileB)}
    ELSE {FetchNone, Fetched(HeaderOnlyFile), Fetched(OtherFileA), Fetched(OtherFileB)}

(***************************************************************************)
(* ticker_data.py: the embedded list                                       *)
(***************************************************************************)
US_STOCK_TICKERS ==
    <<<<"A", "A", "L">>, <<"A", "A", "P", "L">>, <<"A", "B", "B", "V">>,
      <<"A", "C", "N">>, <<"A", "D", "B", "E">>, <<"A", "D", "D", "Y", "Y">>,
      <<"A", "E", "P">>, <<"A", "I", "G">>, <<"A", "L", "L">>, <<"A", "M", "D">>,
      <<"A", "M", "G", "N">>, <<"A", "M", "Z", "N">>, <<"A", "P", "D">>,
      <<"A", "X", "P">>, <<"B", "A", "C">>, <<"B", "A">>, <<"B", "L", "K">>,
      <<"B", "R", "K", ".", "A">>, <<"B", "R", "K", ".", "B">>, <<"B", "W", "A">>,
      <<"C">>, <<"C", "A", "L">>, <<"C", "A", "T">>, <<"C", "B", "O", "E">>,
      <<"C", "A", "R", "R">>, <<"C", "H", "D">>, <<"C", "H", "T", "R">>,
      <<"C", "M", "C", "S", "A">>, <<"C", "O", "P">>, <<"C", "O", "S", "T">>,
      <<"C", "P", "R", "I">>, <<"C", "R", "M">>, <<"C", "R", "S", "P">>,
      <<"C", "S", "C", "O">>, <<"C", "T", "S", "H">>, <<"C", "V", "X">>,
      <<"D", "A", "L">>, <<"D", "A", "S", "H">>, <<"D", "D">>, <<"D", "I", "S">>,
      <<"D", "O", "W">>, <<"D", "R", "U", "K", "F">>, <<"D", "U", "K">>,
      <<"E", "D", "I", "T">>, <<"E", "B", "A", "Y">>, <<"E", "Q", "I", "X">>,
      <<"E", "Q", "R">>, <<"E", "T", "N">>, <<"E", "X", "A", "S">>, <<"E", "X", "C">>,
      <<"E", "X", "P", "D">>, <<"F">>, <<"F", "C", "X">>, <<"F", "D", "X">>,
      <<"F", "I", "T", "B">>, <<"F", "O", "X", "A">>, <<"F", "O", "X">>,
      <<"F", "R", "C">>, <<"G", "E">>, <<"G", "E", "L", "Y", "Y">>, <<"G", "H", "C">>,
      <<"G", "I", "L", "D">>, <<"G", "M">>, <<"G", "S">>, <<"G", "T", "L", "B">>,
      <<"G", "T", "L", "S">>, <<"G", "O", "O", "G">>, <<"G", "O", "O", "G", "L">>,
      <<"H", "D">>, <<"H", "I">>, <<"H", "M", "C">>, <<"H", "O", "N">>,
      <<"H", "R", "S", "T", "Y">>, <<"H", "Y", "M", "T", "F">>, <<"I", "B", "M">>,
      <<"I", "L", "M", "N">>, <<"I", "M", "A", "X">>, <<"I", "N", "S", "W">>,
      <<"I", "N", "T", "C">>, <<"I", "N", "T", "U">>, <<"I", "O", "N", "M">>,
      <<"I", "P">>, <<"I", "T", "W">>, <<"J", "N", "J">>, <<"J", "P", "M">>,
      <<"K", "K", "R">>, <<"K", "M", "B">>, <<"K", "O">>, <<"L", "I", "N">>,
      <<"L", "I", "O", "N", "S", "B">>, <<"L", "L", "Y">>, <<"L", "M", "T">>,
      <<"L", "P", "L">>, <<"L", "O", "W">>, <<"L", "R", "C", "X">>, <<"L", "U", "V">>,
      <<"L", "Y", "B">>, <<"L", "Y", "F", "T">>, <<"M", "A">>, <<"M", "A", "C">>,
      <<"M", "C", "D">>, <<"M", "D", "L", "Z">>, <<"M", "E", "T", "A">>,
      <<"M", "L", "L">>, <<"M", "O", "N", "D", "E", "L", "E", "Z">>, <<"M", "O", "S">>,
      <<"M", "R", "V", "L">>, <<"M", "U">>, <<"M", "S">>, <<"N", "E", "E">>,
      <<"N", "E", "M">>, <<"N", "F", "L", "X">>, <<"N", "K", "E">>,
      <<"N", "S", "A", "N", "Y">>, <<"N", "U", "V", "A">>, <<"O", "R", "C", "L">>,
      <<"O">>, <<"P", "E", "P">>, <<"P", "F", "E">>, <<"P", "G">>,
      <<"P", "I", "N", "S">>, <<"P", "K", "G">>, <<"P", "L", "D">>, <<"P", "N", "W">>,
      <<"P", "P", "L">>, <<"P", "R", "U">>, <<"P", "S", "A">>, <<"P", "S", "X">>,
      <<"P", "Y", "P", "L">>, <<"Q", "C", "O", "M">>, <<"Q", "S", "R">>,
      <<"R", "B", "L", "X">>, <<"R", "E", "G", "N">>, <<"R", "L">>,
      <<"R", "L", "O", "G">>, <<"R", "O", "P">>, <<"R", "T", "X">>, <<"S", "A", "P">>,
      <<"S", "B", "U", "X">>, <<"S", "C", "H", "W">>, <<"S", "E">>,
      <<"S", "H", "C", "O">>, <<"S", "H", "O">>, <<"S", "I", "V", "B">>,
      <<"S", "K", "X">>, <<"S", "L", "B">>, <<"S", "N", "P", "S">>, <<"S", "O">>,
      <<"S", "P", "O", "T">>, <<"S", "Q">>, <<"S", "T", "A", "G">>,
      <<"S", "T", "L", "D">>, <<"S", "W">>, <<"T">>, <<"T", "M", "U", "S">>,
      <<"T", "M", "O">>, <<"T", "T">>, <<"U", "G", "I">>, <<"U", "L">>,
      <<"U", "N", "H">>, <<"U", "P", "S">>, <<"U", "A", "L">>, <<"V", "L", "C">>,
      <<"V", "L", "O">>, <<"V", "O", "D">>, <<"V", "R", "T", "X">>, <<"V", "Z">>,
      <<"W", "D", "A", "Y">>, <<"W", "E", "L", "L">>, <<"W", "F", "C">>,
      <<"W", "L", "K">>, <<"W", "M", "T">>, <<"W", "I", "R", "E">>, <<"W", "R", "K">>,
      <<"X", "Y", "L", "E", "M">>, <<"X", "O", "M">>, <<"Y", "U", "M">>,
      <<"V", "W", "A", "G", "Y">>>>

DEFAULT_TICKER == <<"A", "A", "P", "L">>

Queries == {<<>>, <<"A", "P">>, <<" ", "a", "p", " ">>, <<"f", "u", "n", "d">>, <<"Z", "Z">>}


(***************************************************************************)
(* TickerSyncManager                                                       *)
(***************************************************************************)
DateOfRaw(timestamp) == timestamp

\* datetime.date(): the calendar day of a timestamp
DateOf(timestamp) == timestamp \div TicksPerDay

\* date.today()
today == DateOf(now)

\* _get_last_sync_date: the set holding the date of the watermark, {} for None
get_last_sync_date(log) ==
    {DateOf(row.value) : row \in {r \in log : r.key = "last_updated_at"}}

\* _set_last_sync_date: INSERT OR REPLACE INTO sync_log
set_last_sync_date(log, timestamp) ==
    {r \in log : r.key # "last_updated_at"}
        \cup {[key |-> "last_updated_at", value |-> timestamp]}

\* "if not content": None or the empty string
FetchFailed(fetch) == ~fetch.ok \/ fetch.content = <<>>

\* the body of "for line in data_lines": the entry of a line, <<>> if skipped
ParseLine(line, is_nasdaqlisted) ==
    LET parts == split(line, "|")
        etf_index == IF is_nasdaqlisted THEN 5 ELSE 6
    IN  IF strip(line) = <<>> \/ startswith(line, <<"F", "i", "l", "e">>) THEN <<>>
        ELSE IF Len(parts) < 3 THEN <<>>
        ELSE IF Contains(strip(parts[2]), <<"T", "e", "s", "t", " ", "I", "s", "s", "u", "e">>) THEN <<>>
        ELSE <<[symbol |-> strip(parts[1]),
                name |-> strip(parts[2]),
                is_etf |-> IF Len(parts) >= etf_index
                              /\ upper(strip(parts[etf_index])) = <<"Y">>
                           THEN 1 ELSE 0,
                exchange |-> IF is_nasdaqlisted THEN "NASDAQ" ELSE "OTHER"]>>

RECURSIVE ParseLines(_, _)
ParseLines(data_lines, is_nasdaqlisted) ==
    IF data_lines = <<>> THEN <<>>
    ELSE ParseLine(Head(data_lines), is_nasdaqlisted)
             \o ParseLines(Tail(data_lines), is_nasdaqlisted)

parse_nasdaq_file_with_header(content, is_nasdaqlisted) ==
    LET lines == split(content, "\n")
        data_lines == IF Len(lines) > 2 THEN SubSeq(lines, 1, Len(lines) - 1) ELSE <<>>
    IN  ParseLines(data_lines, is_nasdaqlisted)

\* _parse_nasdaq_file
parse_nasdaq_file(content, is_nasdaqlisted) ==
    LET lines == split(content, "\n")
        data_lines == IF Len(lines) > 2 THEN SubSeq(lines, 2, Len(lines) - 1) ELSE <<>>
    IN  ParseLines(data_lines, is_nasdaqlisted)

UpsertAppend(table, row) == table \cup {row}

UpsertIgnore(table, row) ==
    IF \E r \in table : r.symbol = row.symbol THEN table ELSE table \cup {row}

\* INSERT OR REPLACE INTO tickers: symbol is the primary key
Upsert(table, row) == {r \in table : r.symbol # row.symbol} \cup {row}

RECURSIVE UpsertAll(_, _)
UpsertAll(table, rows) ==
    IF rows = <<>> THEN table
    ELSE UpsertAll(Upsert(table, Head(rows)), Tail(rows))

insert_tickers_resyncing(table, index, rows) ==
    IF rows = <<>> THEN [tickers |-> table, tickers_search |-> index, count |-> 0]
    ELSE [tickers |-> UpsertAll({}, rows),
          tickers_search |-> IF index_readable THEN UpsertAll({}, rows) ELSE index,
          count |-> Len(rows)]

insert_tickers_incremental(table, index, rows) ==
    IF rows = <<>> THEN [tickers |-> table, tickers_search |-> index, count |-> 0]
    ELSE [tickers |-> UpsertAll(table, rows),
          tickers_search |-> index \cup {rows[i] : i \in DOMAIN rows},
          count |-> Len(rows)]

\* _insert_tickers: upsert every row, then rebuild the search index; a
\* rebuild that raises is logged and leaves the index as it was
insert_tickers(table, index, rows) ==
    IF rows = <<>> THEN [tickers |-> table, tickers_search |-> index, count |-> 0]
    ELSE [tickers |-> UpsertAll(table, rows),
          tickers_search |-> IF index_readable THEN UpsertAll(table, rows) ELSE index,
          count |-> Len(rows)]

\* sync_if_needed, "already synced today": return False
SkipSync ==
    [tickers |-> tickers, tickers_search |-> tickers_search, sync_log |-> sync_log,
     value |-> FALSE, fetched |-> <<>>, outcome |-> "skipped"]

AbortSyncMarking(fetched) ==
    [tickers |-> tickers, tickers_search |-> tickers_search,
     sync_log |-> set_last_sync_date(sync_log, now),
     value |-> FALSE, fetched |-> fetched, outcome |-> "failed"]

\* sync_if_needed, a listing file could not be fetched: return False
AbortSync(fetched) ==
    [tickers |-> tickers, tickers_search |-> tickers_search, sync_log |-> sync_log,
     value |-> FALSE, fetched |-> fetched, outcome |-> "failed"]

\* _parse_nasdaq_file of every text the feed can serve, computed once
ParsedListings ==
    [is_nasdaqlisted \in BOOLEAN |->
        [content \in {fetch.content :
                         fetch \in FetchOutcomes(IF is_nasdaqlisted THEN NASDAQ_LISTED_FILE
                                                 ELSE OTHERLISTED_FILE)}
            |-> parse_nasdaq_file(content, is_nasdaqlisted)]]

\* sync_if_needed, both files fetched: parse, insert, set the watermark
CompleteSync(nasdaq, other) ==
    LET all_tickers == ParsedListings[TRUE][nasdaq.content]
                           \o ParsedListings[FALSE][other.content]
        ins == insert_tickers(tickers, tickers_search, all_tickers)
    IN  [tickers |-> ins.tickers, tickers_search |-> ins.tickers_search,
         sync_log |-> set_last_sync_date(sync_log, now),
         value |-> TRUE, fetched |-> <<nasdaq, other>>, outcome |-> "synced"]

\* sync_if_needed with the answers of the feed to the two fetches
SyncRun(nasdaq, other) ==
    IF get_last_sync_date(sync_log) = {today} THEN SkipSync
    ELSE IF FetchFailed(nasdaq) THEN AbortSync(<<nasdaq>>)
    ELSE IF FetchFailed(other) THEN AbortSync(<<nasdaq, other>>)
    ELSE CompleteSync(nasdaq, other)

\* get_ticker_count
get_ticker_count == Cardinality(tickers)

\* ORDER BY symbol over a set of rows with distinct symbols
RECURSIVE OrderBySymbol(_)
OrderBySymbol(rows) ==
    IF rows = {} THEN <<>>
    ELSE LET first == CHOOSE r \in rows : \A o \in rows : ~StrLt(o.symbol, r.symbol)
         IN  <<first>> \o OrderBySymbol(rows \ {first})

\* the two SELECTs of get_ticker_options for a non-empty search_query
SymbolMatches(table, query) == {r \in table : Like(r.symbol, query \o <<"%">>)}
NameMatches(table, query) ==
    {r \in table : /\ ~Like(r.symbol, query \o <<"%">>)
                   /\ Like(r.name, <<"%">> \o query \o <<"%">>)}

OrderTierByTier(table, query) ==
    OrderBySymbol(SymbolMatches(table, query)) \o OrderBySymbol(NameMatches(table, query))

\* ... UNION ALL ... ORDER BY symbol: the order covers the whole union
SelectMatches(table, query) ==
    OrderBySymbol(SymbolMatches(table, query) \cup NameMatches(table, query))

\* "{symbol} | {name} ({ticker_type})"
FormatOption(row) ==
    row.symbol \o <<" ", "|", " ">> \o row.name \o <<" ", "(">>
        \o (IF row.is_etf # 0 THEN <<"E", "T", "F">> ELSE <<"S", "t", "o", "c", "k">>) \o <<")">>

\* get_ticker_options
get_ticker_options(search_query) ==
    LET results == IF search_query # <<>>
                   THEN SelectMatches(tickers, upper(strip(search_query)))
                   ELSE OrderBySymbol(tickers)
    IN  [i \in DOMAIN results |-> FormatOption(results[i])]

\* TickerSyncManager.get_ticker_from_option: <<>> for None, else <<symbol>>
get_ticker_from_option(option) ==
    IF option = <<>> \/ IndexOf(option, "|") = 0 THEN <<>>
    ELSE LET ticker == strip(split(option, "|")[1])
         IN  IF ticker = <<>> THEN <<>> ELSE <<ticker>>

(***************************************************************************)
(* ticker_data.search_tickers                                              *)
(***************************************************************************)
RECURSIVE Flatten(_)
Flatten(lists) == IF lists = <<>> THEN <<>> ELSE Head(lists) \o Flatten(Tail(lists))

\* the fallback on the embedded list
SearchLocalList(query, limit) ==
    LET query_upper == strip(upper(query))
        prefixed == sorted(SelectSeq(US_STOCK_TICKERS,
                                     LAMBDA t : startswith(t, query_upper)))
        containing == sorted(SelectSeq(US_STOCK_TICKERS,
                                       LAMBDA t : Contains(t, query_upper)))
        matches == IF prefixed # <<>> THEN prefixed ELSE containing
    IN  IF matches # <<>> THEN Take(matches, limit) ELSE <<DEFAULT_TICKER>>

\* the symbols read back from the options of the directory
DirectoryTickers(query) ==
    LET options == get_ticker_options(query)
    IN  Flatten([i \in DOMAIN options |-> get_ticker_from_option(options[i])])

\* get_ticker_count as search_tickers sees it: 0 when assets.db cannot be read
TickerCount(available) == IF available THEN get_ticker_count ELSE 0

search_tickers_truncating(query, limit, available) ==
    IF query = <<>> THEN Take(<<DEFAULT_TICKER>>, limit)
    ELSE LET found == IF TickerCount(available) > 0 THEN DirectoryTickers(query)
                      ELSE <<>>
         IN  IF found # <<>> THEN Take(found, limit)
             ELSE SearchLocalList(query, limit)

\* search_tickers(query, limit); available: assets.db answers its queries
search_tickers_result(query, limit, available) ==
    IF query = <<>> THEN <<DEFAULT_TICKER>>
    ELSE LET found == IF TickerCount(available) > 0 THEN DirectoryTickers(query)
                      ELSE <<>>
         IN  IF found # <<>> THEN Take(found, limit)
             ELSE SearchLocalList(query, limit)

(***************************************************************************)
(* ticker_data.get_ticker_from_option                                      *)
(***************************************************************************)
\* the module-level get_ticker_from_option: the symbol the manager extracts,
\* else the text before " | ", else the option itself
ticker_data_get_ticker_from_option(option) ==
    LET ticker == get_ticker_from_option(option)
    IN  IF ticker # <<>> THEN ticker[1]
        ELSE IF Find(option, <<" ", "|", " ">>) # 0
             THEN strip(SplitHead(option, <<" ", "|", " ">>))
             ELSE option

\* option strings handed to get_ticker_from_option besides those of the
\* directory: the local format, a bare symbol, the empty string, an option
\* without a symbol, a delimiter without spaces
Options ==
    {<<"A", "A", "P", "L", " ", "|", " ", "A", "A", "P", "L">>,
     <<"A", "A", "P", "L">>,
     <<>>,
     <<" ", "|", " ", "N", "o", " ", "S", "y", "m", "b", "o", "l", " ", "(", "S", "t", "o", "c", "k", ")">>,
     <<"A", "P", "|", "x">>}

(***************************************************************************)
(* The directory as a state machine                                        *)
(***************************************************************************)
NoCall ==
    [op |-> "none", synced |-> FALSE, fetched |-> <<>>,
     query |-> <<>>, limit |-> 0, available |-> TRUE, result |-> <<>>,
     option |-> <<>>, symbol |-> <<>>, manager_symbol |-> <<>>, raised |-> FALSE,
     requested |-> <<>>, response |-> DownloadRaised,
     rows |-> <<>>, newline |-> FALSE, is_nasdaqlisted |-> FALSE, parsed |-> <<>>]

\* a fresh assets.db after TickerSyncManager._init_db
InitDirectoryState ==
    /\ tickers = {}
    /\ tickers_search = {}
    /\ index_readable = TRUE
    /\ sync_log = {}
    /\ now = 0
    /\ ret = NoCall
    /\ last_sync = [called |-> FALSE, at |-> 0, outcome |-> "none", before |-> "none",
                    repeated |-> FALSE]

(***************************************************************************)
(* app.main: load the trades, fetch the prices, aggregate                  *)
(***************************************************************************)
\* what main has not computed yet
InitMainState ==
    /\ ticker_prices = <<>>
    /\ portfolio_df = <<>>
    /\ metrics = compute_metrics(<<>>, <<>>, <<>>)
    /\ allocation_df = <<>>
    /\ aggregated = FALSE
    /\ analysis_df = <<>>

\* a ledger of trades without cash transactions
InitPortfolio ==
    /\ transactions_df = <<>>
    /\ investments_df \in Ledgers
    /\ InitMainState
    /\ InitDirectoryState

\* a ledger of trades and cash transactions
InitCash ==
    /\ transactions_df \in CashLogs
    /\ investments_df \in Ledgers
    /\ InitMainState
    /\ InitDirectoryState

\* batch_fetch_prices returns a price for any subset of the requested tickers
main ==
    /\ ~aggregated
    /\ \E prices \in PriceMaps :
        /\ DOMAIN prices \subseteq GroupKeys(investments_df)
        /\ ticker_prices' = prices
        /\ portfolio_df' \in aggregate_portfolio(investments_df, prices)
    /\ metrics' = compute_metrics(transactions_df, investments_df, portfolio_df')
    /\ allocation_df' \in get_portfolio_allocation(portfolio_df')
    /\ aggregated' = TRUE
    /\ UNCHANGED <<transactions_df, investments_df, analysis_df, dvars>>

NextPortfolio == main

\* check_setup.check_portfolio_calculations and
\* test_features.test_portfolio_analysis: the trades aggregated by
\* PortfolioAnalyzer, fetch_latest_price answering for any of the tickers
check_portfolio_calculations ==
    /\ ret.op = "none"
    /\ investments_df # <<>>
    /\ \E latest \in PriceMaps :
        /\ DOMAIN latest \subseteq GroupKeys(investments_df)
        /\ ticker_prices' = latest
        /\ analysis_df' = analyzer_aggregate_portfolio(investments_df, latest)
    /\ ret' = [NoCall EXCEPT !.op = "check_portfolio_calculations"]
    /\ UNCHANGED <<transactions_df, investments_df, portfolio_df, metrics, allocation_df,
                   aggregated, tickers, tickers_search, index_readable, sync_log, now,
                   last_sync>>

NextAnalyzer == check_portfolio_calculations

SpecAnalyzer == InitPortfolio /\ [][NextAnalyzer]_vars

\* a call of batch_fetch_prices: the tickers asked for, what yf.download
\* answered, and the map returned
batch_fetch_prices_call ==
    /\ \E requested \in Requests, response \in Responses :
        /\ ticker_prices' = batch_fetch_prices(requested, response)
        /\ ret' = [NoCall EXCEPT !.op = "batch_fetch_prices", !.requested = requested,
                                 !.response = response]
    /\ UNCHANGED <<transactions_df, investments_df, portfolio_df, metrics, allocation_df,
                   aggregated, analysis_df, tickers, tickers_search, index_readable,
                   sync_log, now, last_sync>>

NextPrices == batch_fetch_prices_call

SpecPortfolio == InitPortfolio /\ [][NextPortfolio]_vars

SpecCash == InitCash /\ [][NextPortfolio]_vars

InitDirectory ==
    /\ InitDirectoryState
    /\ transactions_df = <<>>
    /\ investments_df = <<>>
    /\ InitMainState

sync_if_needed ==
    /\ \E nasdaq \in FetchOutcomes(NASDAQ_LISTED_FILE),
          other \in FetchOutcomes(OTHERLISTED_FILE) :
        LET out == SyncRun(nasdaq, other)
        IN  /\ tickers' = out.tickers
            /\ tickers_search' = out.tickers_search
            /\ sync_log' = out.sync_log
            /\ ret' = [NoCall EXCEPT !.op = "sync_if_needed", !.synced = out.value,
                                     !.fetched = out.fetched]
            /\ last_sync' = [called |-> TRUE, at |-> now, outcome |-> out.outcome,
                              before |-> last_sync.outcome,
                              repeated |-> ret.op = "sync_if_needed"
                                             /\ ret.fetched = out.fetched]
    /\ UNCHANGED <<index_readable, now, pvars>>

search_tickers ==
    /\ \E query \in Queries, limit \in 0..MaxLimit, available \in BOOLEAN :
        ret' = [NoCall EXCEPT !.op = "search_tickers", !.query = query,
                              !.limit = limit, !.available = available,
                              !.result = search_tickers_result(query, limit, available)]
    /\ UNCHANGED <<tickers, tickers_search, index_readable, sync_log, now, last_sync, pvars>>

\* ticker_data.get_ticker_from_option(option), and what the manager's method
\* returned inside it (<<>> for None)
get_ticker_from_option_call ==
    /\ \E option \in Options \cup {get_ticker_options(<<>>)[i] :
                                       i \in DOMAIN get_ticker_options(<<>>)} :
        ret' = [NoCall EXCEPT !.op = "get_ticker_from_option", !.option = option,
                              !.symbol = ticker_data_get_ticker_from_option(option),
                              !.manager_symbol = get_ticker_from_option(option)]
    /\ UNCHANGED <<tickers, tickers_search, index_readable, sync_log, now, last_sync, pvars>>

\* damage to assets.db that makes every query on tickers_search fail (a
\* shadow table of the index lost or overwritten)
CorruptIndex ==
    /\ index_readable
    /\ index_readable' = FALSE
    /\ tickers_search' = {}
    /\ UNCHANGED <<tickers, sync_log, now, ret, last_sync, pvars>>

\* _init_db once assets.db is open: the tables are created if missing; an
\* index whose query fails is dropped (a failure of the DROP is passed over)
\* and created again if it does not exist; with tickers present the index is
\* rebuilt, a failure of the rebuild being logged
InitDb(dropped) ==
    IF index_readable THEN [index_readable |-> TRUE, tickers_search |-> tickers]
    ELSE IF dropped THEN [index_readable |-> TRUE, tickers_search |-> tickers]
    ELSE [index_readable |-> FALSE, tickers_search |-> tickers_search]

\* get_sync_manager() creating the manager: TickerSyncManager.__init__ runs
\* _init_db, whose connect, integrity check and CREATE TABLE statements are
\* not inside a try block.  opened: assets.db can be opened and written;
\* dropped: DROP TABLE succeeds on the index whose query failed.
get_sync_manager ==
    /\ \E opened \in BOOLEAN, dropped \in BOOLEAN :
        /\ index_readable' = IF opened THEN InitDb(dropped).index_readable
                              ELSE index_readable
        /\ tickers_search' = IF opened THEN InitDb(dropped).tickers_search
                              ELSE tickers_search
        /\ ret' = [NoCall EXCEPT !.op = "get_sync_manager", !.raised = ~opened]
    /\ UNCHANGED <<tickers, sync_log, now, last_sync, pvars>>

\* _parse_nasdaq_file(content, is_nasdaqlisted) on the text of a listing; the
\* parser keeps no state, so one call is taken per behaviour
parse_nasdaq_file_call ==
    /\ ret.op = "none"
    /\ \E rows \in Listings, newline \in BOOLEAN, is_nasdaqlisted \in BOOLEAN :
        ret' = [NoCall EXCEPT !.op = "_parse_nasdaq_file", !.rows = rows,
                              !.newline = newline, !.is_nasdaqlisted = is_nasdaqlisted,
                              !.parsed = parse_nasdaq_file(ListingText(rows, newline),
                                                           is_nasdaqlisted)]
    /\ UNCHANGED <<tickers, tickers_search, index_readable, sync_log, now, last_sync, pvars>>

\* time passes
Tick ==
    /\ now < MaxDays * TicksPerDay - 1
    /\ now' = now + 1
    /\ UNCHANGED <<tickers, tickers_search, index_readable, sync_log, ret, last_sync, pvars>>

\* the synchronisation over the days
NextDirectory == sync_if_needed \/ Tick

SpecDirectory == InitDirectory /\ [][NextDirectory]_vars

\* the searches of one day, over the directory its synchronisation left
NextSearch == sync_if_needed \/ search_tickers \/ get_ticker_from_option_call

SpecSearch == InitDirectory /\ [][NextSearch]_vars

\* the parser on every listing
NextParse == parse_nasdaq_file_call

SpecParse == InitDirectory /\ [][NextParse]_vars

\* the price fetches, over an empty ledger
SpecPrices == InitDirectory /\ [][NextPrices]_vars

\* the manager created again and again over a directory that syncs and an
\* index that can get damaged
NextStartup == sync_if_needed \/ CorruptIndex \/ get_sync_manager

SpecStartup == InitDirectory /\ [][NextStartup]_vars

(***************************************************************************)
(* Properties of the aggregation                                           *)
(***************************************************************************)
\* the quantities of section 4.4, computed from the trades handed to main
boughtShares(t) == SumShares(Buys(GroupOf(investments_df, t)))
boughtValue(t) == SumValue(Buys(GroupOf(investments_df, t)))
soldShares(t) == SumShares(Sells(GroupOf(investments_df, t)))
soldValue(t) == SumValue(Sells(GroupOf(investments_df, t)))
netShares(t) == RSub(boughtShares(t), soldShares(t))
FullyClosed(t) == netShares(t) = Zero /\ RGt(boughtShares(t), Zero)

\* the position summaries of ticker t in the returned frame
RowsOf(t) == {i \in DOMAIN portfolio_df : portfolio_df[i].Ticker = t}
OneRowPerTicker ==
    \A t \in GroupKeys(investments_df) : Cardinality(RowsOf(t)) = 1

\* C1: a ticker whose bought shares equal its sold shares (> 0) is reported
\* with net shares 0, status Closed, current value 0, unrealized P&L 0 and
\* realized P&L = soldValue - boughtValue, whatever the price map holds.
C1_ClosedPosition ==
    aggregated =>
        /\ OneRowPerTicker
        /\ \A t \in GroupKeys(investments_df) :
            (boughtShares(t) = soldShares(t) /\ RGt(boughtShares(t), Zero)) =>
                \A i \in RowsOf(t) :
                    /\ portfolio_df[i].Net_Shares = 0
                    /\ portfolio_df[i].Status = STATUS_CLOSED
                    /\ portfolio_df[i].Current_Value = Zero
                    /\ portfolio_df[i].Unrealized_PnL = Zero
                    /\ portfolio_df[i].Realized_PnL = RSub(soldValue(t), boughtValue(t))

\* a closed position with a gain or loss, priced by the map at another price
\* than its average cost
C1_Witness ==
    /\ aggregated
    /\ \E i \in DOMAIN portfolio_df :
        LET t == portfolio_df[i].Ticker
        IN  /\ boughtShares(t) = soldShares(t)
            /\ RGt(boughtShares(t), Zero)
            /\ t \in DOMAIN ticker_prices
            /\ ticker_prices[t] # portfolio_df[i].Avg_Cost
            /\ portfolio_df[i].Realized_PnL # Zero

\* the example of section 8: Buy 10 @ 100, Sell 4 @ 150, price 120
ExampleTrades ==
    <<[ticker |-> "AAPL", trade_type |-> TRADE_TYPE_BUY,
       shares |-> RInt(10), price |-> RInt(100)],
      [ticker |-> "AAPL", trade_type |-> TRADE_TYPE_SELL,
       shares |-> RInt(4), price |-> RInt(150)]>>
ExamplePrices == [t \in {"AAPL"} |-> RInt(120)]

\* C2: for a ticker that is not fully closed, realized P&L = soldValue -
\* soldShares x avgCost and unrealized P&L = netShares x currentPrice -
\* netShares x avgCost; Buy 10 @ 100, Sell 4 @ 150 at price 120 gives net 6,
\* realized 200, unrealized 120, total 320, Open.
C2_OpenPositionPnl ==
    /\ aggregated =>
        \A t \in GroupKeys(investments_df) :
            ~FullyClosed(t) =>
                \A i \in RowsOf(t) :
                    LET row == portfolio_df[i]
                    IN  /\ row.Realized_PnL =
                               RSub(soldValue(t), RMul(soldShares(t), row.Avg_Cost))
                        /\ row.Unrealized_PnL =
                               RSub(RMul(netShares(t), row.Current_Price),
                                    RMul(netShares(t), row.Avg_Cost))
    /\ \A df \in aggregate_portfolio(ExampleTrades, ExamplePrices) :
        /\ Len(df) = 1
        /\ df[1].Net_Shares = 6
        /\ df[1].Avg_Cost = RInt(100)
        /\ df[1].Realized_PnL = RInt(200)
        /\ df[1].Unrealized_PnL = RInt(120)
        /\ df[1].Total_PnL = RInt(320)
        /\ df[1].Status = STATUS_OPEN

\* a partly sold position: both P&L parts are non-zero
C2_Witness ==
    /\ aggregated
    /\ \E i \in DOMAIN portfolio_df :
        LET t == portfolio_df[i].Ticker
        IN  /\ RGt(soldShares(t), Zero)
            /\ RGt(netShares(t), Zero)
            /\ portfolio_df[i].Realized_PnL # Zero
            /\ portfolio_df[i].Unrealized_PnL # Zero

\* C3: a ticker without an entry in the price map is priced at its average
\* cost: an open position is valued netShares x avgCost with unrealized P&L
\* 0; a single Buy 10 @ 100 with an empty map gives avgCost 100, price 100,
\* value 1000, unrealized 0.
C3_PriceFallback ==
    /\ aggregated =>
        \A t \in GroupKeys(investments_df) \ DOMAIN ticker_prices :
            \A i \in RowsOf(t) :
                LET row == portfolio_df[i]
                IN  /\ row.Current_Price = row.Avg_Cost
                    /\ ~FullyClosed(t) =>
                        /\ row.Current_Value = RMul(netShares(t), row.Avg_Cost)
                        /\ row.Unrealized_PnL = Zero
    /\ \A df \in aggregate_portfolio(SubSeq(ExampleTrades, 1, 1), <<>>) :
        /\ Len(df) = 1
        /\ df[1].Avg_Cost = RInt(100)
        /\ df[1].Current_Price = RInt(100)
        /\ df[1].Current_Value = RInt(1000)
        /\ df[1].Unrealized_PnL = Zero

\* a held position without a price, next to a ticker that has one
C3_Witness ==
    /\ aggregated
    /\ DOMAIN ticker_prices # {}
    /\ \E i \in DOMAIN portfolio_df :
        LET t == portfolio_df[i].Ticker
        IN  /\ t \notin DOMAIN ticker_prices
            /\ RGt(netShares(t), Zero)
            /\ RGt(portfolio_df[i].Current_Value, Zero)

\* C4: with bought shares > 0 the average cost is boughtValue / boughtShares,
\* the same as without the ticker's Sell trades; it is 0 without buys.
C4_AvgCostOfBuys ==
    aggregated =>
        \A t \in GroupKeys(investments_df) :
            \A i \in RowsOf(t) :
                /\ RGt(boughtShares(t), Zero) =>
                    /\ portfolio_df[i].Avg_Cost = RDiv(boughtValue(t), boughtShares(t))
                    /\ portfolio_df[i].Avg_Cost =
                        PositionRow(t, Buys(GroupOf(investments_df, t)),
                                    ticker_prices).Avg_Cost
                /\ boughtShares(t) = Zero => portfolio_df[i].Avg_Cost = Zero

\* two buys at different prices, and a sell at a price off the average cost
C4_Witness ==
    /\ aggregated
    /\ \E i \in DOMAIN portfolio_df :
        LET t == portfolio_df[i].Ticker
            g == GroupOf(investments_df, t)
        IN  /\ Len(Buys(g)) = 2
            /\ Buys(g)[1].price # Buys(g)[2].price
            /\ Len(Sells(g)) = 1
            /\ Sells(g)[1].price # portfolio_df[i].Avg_Cost
            /\ RGt(netShares(t), Zero)

\* C5: in every position summary the reported net shares equal the reported
\* bought shares minus the reported sold shares, fractional quantities
\* included.
C5_ReportedNetShares ==
    \A i \in DOMAIN portfolio_df :
        portfolio_df[i].Net_Shares =
            portfolio_df[i].Total_Shares - portfolio_df[i].Sold_Shares

\* C6: total P&L = realized P&L + unrealized P&L, and the status is Closed
\* iff net shares (bought - sold) = 0, Open otherwise, oversold included.
C6_TotalAndStatus ==
    aggregated =>
        \A t \in GroupKeys(investments_df) :
            \A i \in RowsOf(t) :
                LET row == portfolio_df[i]
                IN  /\ row.Total_PnL = RAdd(row.Realized_PnL, row.Unrealized_PnL)
                    /\ row.Status \in {STATUS_CLOSED, STATUS_OPEN}
                    /\ row.Status = STATUS_CLOSED <=> netShares(t) = Zero

\* an oversold ticker (Open) next to a closed one
C6_Witness ==
    /\ aggregated
    /\ \E i, j \in DOMAIN portfolio_df :
        /\ RLt(netShares(portfolio_df[i].Ticker), Zero)
        /\ portfolio_df[i].Status = STATUS_OPEN
        /\ portfolio_df[i].Total_PnL # Zero
        /\ portfolio_df[j].Status = STATUS_CLOSED

(***************************************************************************)
(* Properties of the directory synchronisation and of the search           *)
(***************************************************************************)
\* the calendar day of a clock value, and of the watermark
CalendarDay(t) == t \div TicksPerDay
WatermarkDays == {CalendarDay(row.value) : row \in sync_log}

StoreUnchanged == UNCHANGED <<tickers, tickers_search, sync_log>>

\* C7 (as stated): whenever sync_if_needed is called twice within the same
\* calendar day, the second call returns False without fetching and without
\* changing the directory, the search index or the watermark.
C7_SecondCallSameDaySkips ==
    [][(/\ sync_if_needed
        /\ last_sync.called
        /\ CalendarDay(last_sync.at) = CalendarDay(now))
            => (/\ ret'.fetched = <<>>
                /\ ret'.synced = FALSE
                /\ StoreUnchanged)]_vars

\* C7 (amended): whenever sync_if_needed is called on a calendar day whose
\* date the watermark already holds, it returns False without fetching and
\* without changing the directory, the search index or the watermark.
C7_SkipWhenSyncedToday ==
    [][(sync_if_needed /\ WatermarkDays = {CalendarDay(now)})
            => (/\ ret'.fetched = <<>>
                /\ ret'.synced = FALSE
                /\ StoreUnchanged)]_vars

\* a second call later on the day of a completed sync, skipped
C7_Witness ==
    /\ ret.op = "sync_if_needed"
    /\ last_sync.before = "synced"
    /\ last_sync.outcome = "skipped"
    /\ WatermarkDays = {CalendarDay(now)}
    /\ \E row \in sync_log : row.value < now
    /\ tickers # {}

\* a fetch that returned None
FetchError(fetch) == ~fetch.ok
\* a fetch that returned the text of a listing file
FetchSucceeded(fetch) == fetch.ok /\ fetch.content # <<>>

\* C8: if fetching either listing file fails, sync_if_needed leaves the
\* directory, the search index and the watermark as they were (also when
\* only the second fetch failed) and returns False.
C8_FetchFailureAborts ==
    [][(/\ sync_if_needed
        /\ \E i \in DOMAIN ret'.fetched : FetchError(ret'.fetched[i]))
            => (StoreUnchanged /\ ret'.synced = FALSE)]_vars

\* the first file arrived, the second did not, over a directory and a
\* watermark left by an earlier day's sync
C8_Witness ==
    /\ ret.op = "sync_if_needed"
    /\ Len(ret.fetched) = 2
    /\ FetchSucceeded(ret.fetched[1])
    /\ FetchError(ret.fetched[2])
    /\ ~ret.synced
    /\ tickers # {}
    /\ tickers_search = tickers
    /\ WatermarkDays # {}
    /\ WatermarkDays # {CalendarDay(now)}

\* the rows _parse_nasdaq_file yields for the two files a call fetched
ParsedRows(fetched) ==
    ParsedListings[TRUE][fetched[1].content] \o ParsedListings[FALSE][fetched[2].content]

\* every parsed row is in the table, a symbol listed more than once with the
\* values of its last row
AllRowsStored(rows, table) ==
    \A i \in DOMAIN rows :
        (\A j \in DOMAIN rows : j > i => rows[j].symbol # rows[i].symbol)
            => rows[i] \in table

\* C9: the sync_if_needed call after a failed one fetches again instead of
\* skipping, and when both files arrive it upserts every parsed row and sets
\* the watermark to today.
C9_FailedSyncRetried ==
    [][(sync_if_needed /\ last_sync.outcome = "failed")
            => (/\ Len(ret'.fetched) >= 1
                /\ FetchSucceeded(ret'.fetched[1]) => Len(ret'.fetched) = 2
                /\ (Len(ret'.fetched) = 2 /\ FetchSucceeded(ret'.fetched[1])
                        /\ FetchSucceeded(ret'.fetched[2]))
                    => (/\ ret'.synced
                        /\ AllRowsStored(ParsedRows(ret'.fetched), tickers')
                        /\ {CalendarDay(row.value) : row \in sync_log'}
                               = {CalendarDay(now)}))]_vars

\* a sync completed right after a failed one, replacing rows of an earlier sync
C9_Witness ==
    /\ ret.op = "sync_if_needed"
    /\ last_sync.before = "failed"
    /\ last_sync.outcome = "synced"
    /\ ret.synced
    /\ WatermarkDays = {CalendarDay(now)}
    /\ AllRowsStored(ParsedRows(ret.fetched), tickers)
    /\ \E r \in tickers : r.exchange = "NASDAQ"
    /\ \E r \in tickers : r.exchange = "OTHER"

\* the symbols of a list of rows
SymbolsOf(rows) == [i \in DOMAIN rows |-> rows[i].symbol]

\* C10: with a populated directory, search_tickers(query, limit) for a
\* non-empty query returns the symbols having the query as prefix, in
\* ascending order, then the symbols matching by name only, in ascending
\* order, truncated to limit.
C10_PrefixTierFirst ==
    [][(/\ search_tickers
        /\ ret'.query # <<>>
        /\ ret'.available
        /\ tickers # {}
        /\ OrderTierByTier(tickers, upper(strip(ret'.query))) # <<>>)
            => ret'.result =
                   Take(SymbolsOf(OrderTierByTier(tickers, upper(strip(ret'.query)))),
                        ret'.limit)]_vars

\* the entries of the directory and of the embedded list a query matches
DirectoryHits(query) ==
    SymbolMatches(tickers, upper(strip(query))) \cup NameMatches(tickers, upper(strip(query)))
StaticHits(query) ==
    {i \in DOMAIN US_STOCK_TICKERS : Contains(US_STOCK_TICKERS[i], upper(strip(query)))}

\* C11: search_tickers never returns an empty list, for every query, every
\* limit >= 0 and every directory state (populated, empty or unavailable),
\* and when nothing matches in the directory or the static list the result
\* is exactly [DEFAULT_TICKER].
C11_NeverEmpty ==
    [][search_tickers
          => (/\ ret'.result # <<>>
              /\ (DirectoryHits(ret'.query) = {} /\ StaticHits(ret'.query) = {})
                    => ret'.result = <<DEFAULT_TICKER>>)]_vars

\* C12: search_tickers("") returns exactly [DEFAULT_TICKER], for every limit
\* and every directory state.
C12_EmptyQueryDefault ==
    (ret.op = "search_tickers" /\ ret.query = <<>>) => ret.result = <<DEFAULT_TICKER>>

\* the empty query with limit 0 over a populated directory
C12_Witness ==
    /\ ret.op = "search_tickers"
    /\ ret.query = <<>>
    /\ ret.limit = 0
    /\ ret.available
    /\ tickers # {}
    /\ ret.result = <<DEFAULT_TICKER>>

\* C13: for every entry the sync can store in the directory, extracting the
\* symbol from the entry's formatted option string returns the entry's symbol.
C13_OptionRoundTrip ==
    LET rows == OrderBySymbol(tickers)
        options == get_ticker_options(<<>>)
    IN  \A i \in DOMAIN rows : get_ticker_from_option(options[i]) = <<rows[i].symbol>>

UniqueSymbols(table) == \A r, o \in table : r.symbol = o.symbol => r = o

\* C14: upserting a symbol that already exists replaces its name, exchange
\* and is_etf and leaves exactly one entry for the symbol, and a sync run
\* again with the same feed content leaves the directory unchanged.
C14_UpsertReplaces ==
    [][(sync_if_needed /\ ret'.synced)
          => (/\ AllRowsStored(ParsedRows(ret'.fetched), tickers')
              /\ UniqueSymbols(tickers')
              /\ (ret.op = "sync_if_needed" /\ ret.synced /\ ret.fetched = ret'.fetched)
                    => tickers' = tickers)]_vars

\* a performed sync served the same files as the performed sync before it,
\* the files listing one symbol twice with different names
C14_Witness ==
    /\ ret.op = "sync_if_needed"
    /\ ret.synced
    /\ last_sync.before = "synced"
    /\ last_sync.repeated
    /\ UniqueSymbols(tickers)
    /\ LET rows == ParsedRows(ret.fetched)
       IN  \E i, j \in DOMAIN rows :
               /\ i < j
               /\ rows[i].symbol = rows[j].symbol
               /\ rows[i].name # rows[j].name
               /\ rows[j] \in tickers
               /\ rows[i] \notin tickers

C16_WatermarkMarksStoredRows ==
    [][(sync_if_needed /\ sync_log' # sync_log)
          => (/\ Len(ret'.fetched) = 2
              /\ ParsedRows(ret'.fetched) # <<>>
              /\ AllRowsStored(ParsedRows(ret'.fetched), tickers'))]_vars

RowsOfFrame(df) == {df[i] : i \in DOMAIN df}

\* C17: compute_metrics reports cost_basis = sum of shares x price over all
\* Buy trades (Sell trades never reduce it), total_pnl = sum of realized plus
\* sum of unrealized P&L over all positions, and return_pct = total_pnl /
\* cost_basis x 100, which is 0 when cost_basis is 0.
C17_MetricsCostBasisAndReturn ==
    aggregated =>
        /\ metrics.cost_basis = RAdd(boughtValue("AAPL"), boughtValue("MSFT"))
        /\ metrics.cost_basis
              = compute_metrics(transactions_df, Buys(investments_df), portfolio_df).cost_basis
        /\ metrics.total_pnl
              = RAdd(SeriesSum([i \in DOMAIN portfolio_df |-> portfolio_df[i].Realized_PnL]),
                     SeriesSum([i \in DOMAIN portfolio_df |-> portfolio_df[i].Unrealized_PnL]))
        /\ metrics.total_pnl
              = SeriesSum([i \in DOMAIN portfolio_df |-> portfolio_df[i].Total_PnL])
        /\ IF metrics.cost_basis = Zero THEN metrics.return_pct = Zero
           ELSE metrics.return_pct
                  = RDiv(RMul(metrics.total_pnl, RInt(100)), metrics.cost_basis)

\* two positions, one of them partly sold, with a non-zero return
C17_Witness ==
    /\ aggregated
    /\ Len(portfolio_df) = 2
    /\ \E i \in DOMAIN investments_df : investments_df[i].trade_type = TRADE_TYPE_SELL
    /\ RGt(metrics.cost_basis, Zero)
    /\ metrics.total_realized_pnl # Zero
    /\ metrics.total_unrealized_pnl # Zero
    /\ metrics.return_pct # Zero
    /\ metrics.return_pct = RDiv(RMul(metrics.total_pnl, RInt(100)), metrics.cost_basis)

\* the cash flows of the ledger: income less expenses less buys plus sales
CashFlowBalance ==
    LET signed(i) == IF transactions_df[i].type = TRANSACTION_TYPE_INCOME
                     THEN transactions_df[i].amount
                     ELSE RSub(Zero, transactions_df[i].amount)
        cash == SeriesSum([i \in DOMAIN transactions_df |-> signed(i)])
    IN  RAdd(RSub(cash, SumValue(Buys(investments_df))), SumValue(Sells(investments_df)))

\* C18: the cash balance reported by compute_metrics equals the sum of the
\* Income amounts less the Expense amounts less buy shares x price plus sell
\* shares x price, as PortfolioAnalyzer.compute_metrics computes it.
C18_CashBalanceFromFlows ==
    aggregated => metrics.cash_balance = CashFlowBalance

\* C19: get_portfolio_allocation returns exactly the positions that are open
\* (net shares > 0) and have a positive current value, as (ticker, value)
\* pairs sorted by value descending.
C19_AllocationOfOpenPositions ==
    aggregated =>
        LET expected == {[Ticker |-> row.Ticker, Value |-> row.Current_Value] :
                            row \in {r \in RowsOfFrame(portfolio_df) :
                                        /\ RGt(netShares(r.Ticker), Zero)
                                        /\ RGt(r.Current_Value, Zero)}}
        IN  /\ RowsOfFrame(allocation_df) = expected
            /\ Len(allocation_df) = Cardinality(expected)
            /\ \A i, j \in DOMAIN allocation_df :
                   i < j => ~RLt(allocation_df[i].Value, allocation_df[j].Value)

\* the embedded list under the two-tier policy of the directory search
StaticTierByTier(query) ==
    LET q == upper(strip(query))
    IN  sorted(SelectSeq(US_STOCK_TICKERS, LAMBDA t : startswith(t, q)))
            \o sorted(SelectSeq(US_STOCK_TICKERS,
                                LAMBDA t : Contains(t, q) /\ ~startswith(t, q)))

\* C20: when the directory is empty or unavailable, search_tickers returns
\* the symbols of the embedded list that have the query as a prefix, followed
\* by those that contain it without having it as a prefix, each tier in
\* ascending order, truncated to limit.
C20_StaticListTwoTiers ==
    [][(/\ search_tickers
        /\ ret'.query # <<>>
        /\ tickers = {} \/ ~ret'.available
        /\ StaticTierByTier(ret'.query) # <<>>)
            => ret'.result = Take(StaticTierByTier(ret'.query), ret'.limit)]_vars

\* the text before the first "|" of an option, stripped
LeadingToken(option) == strip(SplitHead(option, <<"|">>))
\* the 'SYMBOL | ...' format: a delimiter after a non-empty symbol part
Recognized(option) == Find(option, <<"|">>) # 0 /\ LeadingToken(option) # <<>>

\* C21: get_ticker_from_option returns the leading symbol token of a formatted
\* option string, and no symbol for every string without the delimiter or
\* with an empty symbol part; this for the function of ticker_data and for
\* the method of TickerSyncManager.
C21_ExtractOrUnavailable ==
    [][get_ticker_from_option_call
          => IF Recognized(ret'.option)
             THEN /\ ret'.symbol = LeadingToken(ret'.option)
                  /\ ret'.manager_symbol = <<LeadingToken(ret'.option)>>
             ELSE /\ ret'.symbol = <<>>
                  /\ ret'.manager_symbol = <<>>]_vars

\* C22: for every symbol S present in the populated directory and every
\* limit >= 1, the result of search_tickers(S, limit) contains S, whatever
\* other entries the directory holds.
C22_KnownTickerFound ==
    [][(/\ search_tickers
        /\ ret'.available
        /\ ret'.limit >= 1
        /\ ret'.query # <<>>
        /\ \E r \in tickers : r.symbol = ret'.query)
            => \E i \in DOMAIN ret'.result : ret'.result[i] = ret'.query]_vars

\* C23: no exception escapes the Directory Sync boundary: under any injected
\* failure of the fetch or of the storage, get_sync_manager() (the schema
\* initialization) and sync_if_needed finish with a return value instead of
\* raising to their caller.
C23_NoExceptionEscapes ==
    ret.op \in {"get_sync_manager", "sync_if_needed"} => ~ret.raised

\* the index answers queries and holds the rows of the directory
IndexMirrorsDirectory == index_readable /\ tickers_search = tickers

\* C28: if the search index is corrupted so that a query on it fails,
\* initialization drops it, recreates it and rebuilds it from the directory
\* table: initialization completes, the directory table and the watermark
\* are unchanged, and afterwards the index mirrors the directory.
C28_IndexSelfHealing ==
    [][(get_sync_manager /\ ~index_readable /\ ~ret'.raised)
          => (/\ tickers' = tickers
              /\ sync_log' = sync_log
              /\ index_readable'
              /\ tickers_search' = tickers')]_vars

\* the tickers of the last request, and those whose price the response holds
RequestedTickers == {ret.requested[i] : i \in DOMAIN ret.requested}
Resolvable(t) == ~ret.response.raised /\ ret.response.close[t].kind = "price"

\* C24: batch_fetch_prices returns a mapping whose keys are a subset of the
\* requested tickers, each mapped to a valid non-NaN price; a ticker whose
\* price cannot be resolved (absent from the response, NaN, or an error
\* while extracting it) is absent from the mapping, and its failure never
\* removes or prevents the entry of a ticker that can be resolved.
C24_ResolvedPricesOnly ==
    ret.op = "batch_fetch_prices" =>
        /\ ticker_prices \in PriceMaps
        /\ DOMAIN ticker_prices \subseteq RequestedTickers
        /\ \A t \in RequestedTickers :
            IF Resolvable(t)
            THEN t \in DOMAIN ticker_prices
                 /\ ticker_prices[t] = ret.response.close[t].value
            ELSE t \notin DOMAIN ticker_prices

\* two tickers asked for: the second has a price, the first raises while its
\* value is extracted
C24_Witness ==
    /\ ret.op = "batch_fetch_prices"
    /\ Len(ret.requested) = 2
    /\ ~ret.response.raised
    /\ ret.response.close[ret.requested[1]].kind = "error"
    /\ ret.response.close[ret.requested[2]].kind = "price"
    /\ DOMAIN ticker_prices = {ret.requested[2]}

\* the symbols of a table
SymbolsIn(table) == {r.symbol : r \in table}

\* C25: sync_if_needed only upserts and never deletes: across any sequence
\* of calls a symbol once present in the directory stays present, also when
\* a later feed no longer lists it.
C25_SymbolsNeverDeleted ==
    [][SymbolsIn(tickers) \subseteq SymbolsIn(tickers')]_vars

\* a performed sync after an earlier one, whose files no longer list a
\* symbol that the directory still holds
C25_Witness ==
    /\ ret.op = "sync_if_needed"
    /\ ret.synced
    /\ last_sync.before = "synced"
    /\ ParsedRows(ret.fetched) # <<>>
    /\ \E r \in tickers :
           r.symbol \notin {ParsedRows(ret.fetched)[i].symbol : i \in DOMAIN ParsedRows(ret.fetched)}

\* C26: for every position that is not fully closed, the reported unrealized
\* P&L % equals unrealized P&L / (netShares x avgCost) x 100 whenever
\* netShares x avgCost is non-zero, and the 0 stands in only when that
\* denominator is 0; this includes a position with more shares sold than
\* bought.
C26_UnrealizedPct ==
    aggregated =>
        \A t \in GroupKeys(investments_df) :
            ~FullyClosed(t) =>
                \A i \in RowsOf(t) :
                    LET row == portfolio_df[i]
                        denominator == RMul(netShares(t), row.Avg_Cost)
                    IN  IF denominator = Zero
                        THEN row.Unrealized_PnL_pct = Zero
                        ELSE row.Unrealized_PnL_pct =
                                 RMul(RDiv(row.Unrealized_PnL, denominator), RInt(100))

\* the entry a data row stands for, from its fields: none for a row of fewer
\* than 3 fields or with the test-issue marker in its name
EntryOfRow(fields, is_nasdaqlisted) ==
    LET etf_column == IF is_nasdaqlisted THEN 4 ELSE 5
    IN  IF Len(fields) < 3 THEN <<>>
        ELSE IF Contains(fields[2], <<"T", "e", "s", "t", " ", "I", "s", "s", "u", "e">>) THEN <<>>
        ELSE <<[symbol |-> strip(fields[1]),
                name |-> strip(fields[2]),
                is_etf |-> IF Len(fields) > etf_column
                              /\ upper(strip(fields[etf_column + 1])) = <<"Y">>
                           THEN 1 ELSE 0,
                exchange |-> IF is_nasdaqlisted THEN "NASDAQ" ELSE "OTHER"]>>

EntriesOfRows(rows, is_nasdaqlisted) ==
    Flatten([i \in DOMAIN rows |-> EntryOfRow(rows[i], is_nasdaqlisted)])

\* C27: _parse_nasdaq_file yields exactly one entry for each data row of at
\* least 3 fields between the header and the summary line whose name has no
\* test-issue marker, with is_etf read from column index 4 (NASDAQ-listed)
\* or 5 (other-listed) and the exchange tag set by the file; header, summary
\* line, test-issue rows and rows of fewer than 3 fields yield no entry and
\* do not stop the parsing, whether or not the file ends with a newline.
C27_ParserEntries ==
    ret.op = "_parse_nasdaq_file"
        => ret.parsed = EntriesOfRows(ret.rows, ret.is_nasdaqlisted)

\* an other-listed file without a newline at the end: a short row, then a
\* row with the ETF flag in column 5
C27_Witness ==
    /\ ret.op = "_parse_nasdaq_file"
    /\ ~ret.newline
    /\ ~ret.is_nasdaqlisted
    /\ Len(ret.rows) = 2
    /\ Len(ret.rows[1]) < 3
    /\ Len(ret.parsed) = 1
    /\ ret.parsed[1].is_etf = 1
    /\ ret.parsed[1].exchange = "OTHER"

\* C29: for every ticker with at least one buy, the total P&L reported by
\* aggregate_portfolio equals soldValue + netShares x currentPrice -
\* boughtValue, in the closed branch as well as in the open branch.
C29_MarkToMarketIdentity ==
    aggregated =>
        \A t \in GroupKeys(investments_df) :
            RGt(boughtShares(t), Zero) =>
                \A i \in RowsOf(t) :
                    portfolio_df[i].Total_PnL =
                        RSub(RAdd(soldValue(t),
                                  RMul(netShares(t), portfolio_df[i].Current_Price)),
                             boughtValue(t))

\* a closed position with a gain or loss next to a held position priced off
\* its average cost
C29_Witness ==
    /\ aggregated
    /\ \E i, j \in DOMAIN portfolio_df :
        /\ FullyClosed(portfolio_df[i].Ticker)
        /\ portfolio_df[i].Total_PnL # Zero
        /\ portfolio_df[i].Current_Price # Zero
        /\ ~FullyClosed(portfolio_df[j].Ticker)
        /\ RGt(boughtShares(portfolio_df[j].Ticker), Zero)
        /\ portfolio_df[j].Current_Price # portfolio_df[j].Avg_Cost
        /\ portfolio_df[j].Total_PnL # Zero

\* the rows of ticker t in the frame of PortfolioAnalyzer
AnalysisRowsOf(t) == {i \in DOMAIN analysis_df : analysis_df[i].Ticker = t}

\* C30: for every trade set and every ticker with net shares > 0,
\* PortfolioAnalyzer.aggregate_portfolio reports, up to its rounding to 2
\* decimals, the average cost PortfolioCalculator.aggregate_portfolio
\* reports, boughtValue / boughtShares, whatever the ticker's sells.
C30_AggregatorsAgreeOnAvgCost ==
    ret.op = "check_portfolio_calculations" =>
        \A t \in GroupKeys(investments_df) :
            RGt(netShares(t), Zero) =>
                /\ Cardinality(AnalysisRowsOf(t)) = 1
                /\ \A i \in AnalysisRowsOf(t) :
                    /\ analysis_df[i].Avg_Cost
                          = round(RDiv(boughtValue(t), boughtShares(t)), PRICE_PRECISION)
                    /\ analysis_df[i].Avg_Cost
                          = round(AvgCost(GroupOf(investments_df, t)), PRICE_PRECISION)

====
